---- MODULE Spec2Model ----
(***************************************************************************)
(* Model of the auction-clearing core of market_lab: order aggregation     *)
(* over a discrete price grid, equilibrium search, greedy fill allocation  *)
(* and the day loop of SimulationRunner.run, with the traders, the         *)
(* pump-and-dump Manipulator and the anomaly scores of manipulation/.      *)
(*                                                                         *)
(* Python floats are modelled as exact rationals <<n, d>> with d > 0 in    *)
(* lowest terms, so every comparison and every sum of the market part is   *)
(* exact; the z-scores of manipulation/metrics.py, which branch on a       *)
(* standard deviation being exactly 0, are computed with rounding floats,  *)
(* and so is the price grid of core/orders.py where it is examined on its  *)
(* own.  The LayeringManipulator of manipulation/layering.py is modelled   *)
(* as a trader called turn after turn.                                     *)
(***************************************************************************)
EXTENDS Integers, Sequences, FiniteSets, TLC

(***************************************************************************)
(* Exact rational arithmetic standing for Python float arithmetic.         *)
(***************************************************************************)
Abs(x) == IF x < 0 THEN -x ELSE x

RECURSIVE GCD(_, _)
GCD(a, b) == IF b = 0 THEN a ELSE GCD(b, a % b)

Norm(n, d) ==
    LET g == GCD(Abs(n), d)
    IN  IF n = 0 THEN <<0, 1>> ELSE <<n \div g, d \div g>>

R(n) == <<n, 1>>
Zero == R(0)

RAdd(a, b) == Norm(a[1] * b[2] + b[1] * a[2], a[2] * b[2])
RSub(a, b) == Norm(a[1] * b[2] - b[1] * a[2], a[2] * b[2])
RMul(a, b) == Norm(a[1] * b[1], a[2] * b[2])
RDiv(a, b) ==
    IF b[1] > 0 THEN Norm(a[1] * b[2], a[2] * b[1])
                ELSE Norm(-(a[1] * b[2]), a[2] * (-b[1]))
RLe(a, b) == a[1] * b[2] <= b[1] * a[2]
RLt(a, b) == a[1] * b[2] < b[1] * a[2]
RGe(a, b) == RLe(b, a)
RGt(a, b) == RLt(b, a)
RMax(a, b) == IF RLt(a, b) THEN b ELSE a
RMin(a, b) == IF RLt(b, a) THEN b ELSE a
\* Python int(x): truncation toward zero.
RInt(a) == IF a[1] >= 0 THEN a[1] \div a[2] ELSE -((-a[1]) \div a[2])

RECURSIVE RSum(_)
RSum(s) == IF s = <<>> THEN Zero ELSE RAdd(Head(s), RSum(Tail(s)))

RECURSIVE RMaxSeq(_)
RMaxSeq(s) == IF Len(s) = 1 THEN s[1] ELSE RMax(s[1], RMaxSeq(Tail(s)))

RECURSIVE RMinSeq(_)
RMinSeq(s) == IF Len(s) = 1 THEN s[1] ELSE RMin(s[1], RMinSeq(Tail(s)))

(***************************************************************************)
(* core/orders.py                                                          *)
(***************************************************************************)
\* Order(trader_id, side, price, volume): the record the constructor builds.
\* The field id stands for the object identity id(order); it is 0 until the
\* runner collects the order.
Order(trader_id, side, price, volume) ==
    [id |-> 0, trader_id |-> trader_id, side |-> side, price |-> price,
     volume |-> volume]

\* Variant of OrderValid: a price of 0 is let through.
OrderValidNonNegative(o) ==
    /\ o.side \in {"buy", "sell"}
    /\ RGe(o.price, Zero)
    /\ RGt(o.volume, Zero)

\* Order.__post_init__: TRUE when construction succeeds, FALSE when it raises.
OrderValid(o) ==
    /\ o.side \in {"buy", "sell"}
    /\ RGt(o.price, Zero)
    /\ RGt(o.volume, Zero)

Prices(orders) == [i \in 1..Len(orders) |-> orders[i].price]
Volumes(orders) == [i \in 1..Len(orders) |-> orders[i].volume]

\* _ensure_price_grid: from max(min price - tick, tick) up, in steps of tick,
\* int((max_price - min_price) / tick) + 1 points.
GridPoints(min_price, steps, price_tick) ==
    [idx \in 1..steps |-> RAdd(min_price, RMul(price_tick, R(idx - 1)))]

GridBetween(min_price, max_price, price_tick) ==
    GridPoints(min_price,
               RInt(RDiv(RSub(max_price, min_price), price_tick)) + 1,
               price_tick)

GridOver(prices, price_tick) ==
    IF prices = <<>> THEN <<price_tick>>
    ELSE GridBetween(RMax(RSub(RMinSeq(prices), price_tick), price_tick),
                     RAdd(RMaxSeq(prices), price_tick),
                     price_tick)

EnsurePriceGrid(buy, sell, price_tick) ==
    GridOver(Prices(buy) \o Prices(sell), price_tick)

\* Variant of SellVolumeAt: the supply comparison turned around.
SellVolumeAtOrAbove(sell, p) ==
    RSum(Volumes(SelectSeq(sell, LAMBDA o : RGe(o.price, p))))

\* aggregate_orders / build_order_curves: cumulative demand and supply per
\* grid price.
BuyVolumeAt(buy, p) == RSum(Volumes(SelectSeq(buy, LAMBDA o : RGe(o.price, p))))
SellVolumeAt(sell, p) == RSum(Volumes(SelectSeq(sell, LAMBDA o : RLe(o.price, p))))

CurvesOver(grid, buy, sell) ==
    [price_grid |-> grid,
     buy_curve  |-> [i \in 1..Len(grid) |-> BuyVolumeAt(buy, grid[i])],
     sell_curve |-> [i \in 1..Len(grid) |-> SellVolumeAt(sell, grid[i])]]

AggregateOrders(buy, sell, price_tick) ==
    CurvesOver(EnsurePriceGrid(buy, sell, price_tick), buy, sell)

BuildOrderCurves(buy, sell, price_tick) == AggregateOrders(buy, sell, price_tick)

\* OrderCurves.satisfaction: zip(buy_curve, sell_curve) of min.
MinLen(s, t) == IF Len(s) < Len(t) THEN Len(s) ELSE Len(t)

Satisfaction(c) ==
    [i \in 1..MinLen(c.buy_curve, c.sell_curve) |->
        RMin(c.buy_curve[i], c.sell_curve[i])]

\* allocate_fills: greedy walk in the given order; <<order, fill>> pairs.
RECURSIVE AllocateFrom(_, _)
FillFirst(orders, remaining, fill_volume) ==
    IF RGt(fill_volume, Zero)
    THEN <<[order |-> Head(orders), fill |-> fill_volume]>>
         \o AllocateFrom(Tail(orders), RSub(remaining, fill_volume))
    ELSE AllocateFrom(Tail(orders), remaining)

AllocateFrom(orders, remaining) ==
    IF orders = <<>> \/ RLe(remaining, Zero) THEN <<>>
    ELSE FillFirst(orders, remaining, RMin(Head(orders).volume, remaining))

AllocateFills(orders, volume) == AllocateFrom(orders, RMax(volume, Zero))

(***************************************************************************)
(* core/market.py                                                          *)
(***************************************************************************)
\* Variant of LastOrZero: 0.0 whatever the grid.
ZeroPrice(grid) == Zero

\* find_equilibrium_price: <<price, volume>>.
LastOrZero(grid) == IF grid = <<>> THEN Zero ELSE grid[Len(grid)]

Candidates(grid, satisfaction, max_volume) ==
    SelectSeq([i \in 1..MinLen(grid, satisfaction) |->
                  [price |-> grid[i], volume |-> satisfaction[i]]],
              LAMBDA z : z.volume = max_volume)

MeanPrice(candidates) ==
    RDiv(RSum(Prices(candidates)), R(Len(candidates)))

\* Variants of PriceOfCandidates: the first tied price instead of the mean,
\* and the last grid price instead of the mean.
FirstCandidate(candidates, grid) ==
    IF candidates = <<>> THEN LastOrZero(grid) ELSE candidates[1].price

LastGridPrice(candidates, grid) == LastOrZero(grid)

PriceOfCandidates(candidates, grid) ==
    IF candidates = <<>> THEN LastOrZero(grid) ELSE MeanPrice(candidates)

EquilibriumAt(grid, satisfaction, max_volume) ==
    IF RLe(max_volume, Zero) THEN <<LastOrZero(grid), Zero>>
    ELSE <<PriceOfCandidates(Candidates(grid, satisfaction, max_volume), grid),
           max_volume>>

EquilibriumOf(grid, satisfaction) ==
    EquilibriumAt(grid, satisfaction,
                  IF satisfaction = <<>> THEN Zero ELSE RMaxSeq(satisfaction))

FindEquilibriumPrice(c) == EquilibriumOf(c.price_grid, Satisfaction(c))

(***************************************************************************)
(* Python sorted(): stable, by price; reverse=True keeps the original      *)
(* order of equal keys.                                                    *)
(***************************************************************************)
RECURSIVE InsertDescending(_, _)
InsertDescending(o, s) ==
    IF s = <<>> THEN <<o>>
    ELSE IF RGt(o.price, Head(s).price) THEN <<o>> \o s
         ELSE <<Head(s)>> \o InsertDescending(o, Tail(s))

RECURSIVE SortedDescending(_)
SortedDescending(s) ==
    IF s = <<>> THEN <<>>
    ELSE InsertDescending(s[Len(s)], SortedDescending(SubSeq(s, 1, Len(s) - 1)))

RECURSIVE InsertAscending(_, _)
InsertAscending(o, s) ==
    IF s = <<>> THEN <<o>>
    ELSE IF RLt(o.price, Head(s).price) THEN <<o>> \o s
         ELSE <<Head(s)>> \o InsertAscending(o, Tail(s))

RECURSIVE SortedAscending(_)
SortedAscending(s) ==
    IF s = <<>> THEN <<>>
    ELSE InsertAscending(s[Len(s)], SortedAscending(SubSeq(s, 1, Len(s) - 1)))

(***************************************************************************)
(* Bounds of the model.                                                    *)
(***************************************************************************)
MaxDays == 2          \* run: n_days ranges over 0..MaxDays
MaxOrders == 3        \* auction inputs: orders submitted, both sides together
MaxPrice == 4         \* auction inputs: limit prices 1..MaxPrice
MaxOrderVolume == 2   \* auction inputs: volumes 1..MaxOrderVolume

MaxPhaseDays == 2      \* manipulator: each phase lasts 0..MaxPhaseDays days

MaxStates == 3         \* detection: sequences of 0..MaxStates market states
MaxWindow == 3         \* detection: window ranges over -1..MaxWindow
FloatBits == 3         \* detection: significand bits of the floats

MaxPhaseDuration == 2  \* layering: phase_duration ranges over 1..MaxPhaseDuration
MaxTurns == 9          \* layering: calls made to one LayeringManipulator

\* Python None is the empty tuple; an optional value that is present is the
\* one-element tuple holding it (rationals, never empty, stand for themselves).
None == <<>>
Some(x) == <<x>>

VARIABLES
    config,        \* MarketConfig
    traders,       \* runner.traders: index -> [trader_id, kind, wealth, holdings]
    manipulator,   \* runner.manipulator: None or Some(the Manipulator's fields)
    n_days,        \* argument of run
    day,           \* loop variable of run
    last_price,    \* local of run
    states,        \* local of run: the MarketStates appended so far
    pc,            \* position inside run
    buy_orders,    \* the day's collected buy orders
    sell_orders,   \* the day's collected sell orders
    owner_lookup,  \* id(order) -> owner (0: the manipulator, i: traders[i])
    order_curves,  \* the day's OrderCurves, or None
    price,         \* the day's clearing price, or None
    volume,        \* the day's cleared volume, or None
    buy_fills,     \* allocate_fills over the eligible buys
    sell_fills,    \* allocate_fills over the eligible sells
    call,          \* the last call made to a function on its own, or None
    slots_super    \* the interpreter running the program: TRUE when a
                   \* zero-argument super() inside a dataclass(slots=True)
                   \* class resolves (CPython from 3.14 on), FALSE when it
                   \* raises TypeError (CPython 3.11 to 3.13)

vars == <<config, traders, manipulator, n_days, day, last_price, states, pc,
          buy_orders, sell_orders, owner_lookup, order_curves, price, volume,
          buy_fills, sell_fills, call, slots_super>>

(***************************************************************************)
(* core/sentiment.py                                                       *)
(***************************************************************************)
\* NoSentiment.value_at
SentimentValueAt(d) == Zero

(***************************************************************************)
(* core/traders.py.  A draw stands for the values the trader's generator   *)
(* returns in one call: active (random() <= active_probability), side      *)
(* (random() < 0.5), noise (gauss(center, volatility) - center) and volume *)
(* (uniform(0.1, max_daily_volume)).                                       *)
(***************************************************************************)
Inactive == [active |-> FALSE, side |-> "buy", noise |-> 0, volume |-> 1]

Draws(cfg) ==
    {Inactive}
    \cup [active : {TRUE}, side : {"buy", "sell"},
          noise : {-1, 0, 1}, volume : 1..cfg.max_daily_volume[1]]

\* Trader._draw_price
DrawPrice(draw, lastp, sentiment_value, cfg) ==
    RMax(RAdd(RMax(RAdd(lastp, sentiment_value), cfg.price_tick), R(draw.noise)),
         cfg.price_tick)

\* RandomTrader.maybe_generate_order: an Order, or None.
RandomMaybeGenerateOrder(t, draw, lastp, sentiment_value, cfg) ==
    IF ~draw.active THEN None
    ELSE Some(Order(t.trader_id, draw.side,
                    DrawPrice(draw, lastp, sentiment_value, cfg), R(draw.volume)))

\* Variant of MaxVolumeFor: a buy is capped by max_daily_volume only.
MaxVolumeIgnoringWealth(t, order, cfg) ==
    IF order.side = "buy" THEN cfg.max_daily_volume
    ELSE RMin(t.holdings, cfg.max_daily_volume)

\* Variant of MaxVolumeFor: a sell is capped by max_daily_volume only.
MaxVolumeIgnoringHoldings(t, order, cfg) ==
    IF order.side = "buy"
    THEN RMin(RDiv(t.wealth, RMax(order.price, cfg.price_tick)), cfg.max_daily_volume)
    ELSE cfg.max_daily_volume

\* WealthLimitedTrader.maybe_generate_order: the random order clipped to what
\* the trader can afford or holds; None when nothing is left.
MaxVolumeFor(t, order, cfg) ==
    IF order.side = "buy"
    THEN RMin(RDiv(t.wealth, RMax(order.price, cfg.price_tick)), cfg.max_daily_volume)
    ELSE RMin(t.holdings, cfg.max_daily_volume)

Clipped(order, max_volume) ==
    IF RLe(max_volume, Zero) \/ RLe(RMin(order.volume, max_volume), Zero) THEN None
    ELSE Some(Order(order.trader_id, order.side, order.price,
                    RMin(order.volume, max_volume)))

ClipToWealth(t, super, cfg) ==
    IF super = None THEN None
    ELSE Clipped(super[1], MaxVolumeFor(t, super[1], cfg))

\* Line 146: order = super().maybe_generate_order(...).  The three trader
\* classes are dataclass(slots=True), which rebuilds each class while the
\* method still holds the class it was compiled in: up to CPython 3.13 the
\* zero-argument super() of WealthLimitedTrader.maybe_generate_order raises
\* TypeError on every call, whatever the arguments.  Manipulator is a plain
\* dataclass; its own super() resolves and reaches this line.
SuperRaises(t) == t.kind = "limited" /\ ~slots_super

\* WealthLimitedTrader.maybe_generate_order when line 146 does not raise.
WealthLimitedMaybeGenerateOrder(t, draw, lastp, sentiment_value, cfg) ==
    ClipToWealth(t, RandomMaybeGenerateOrder(t, draw, lastp, sentiment_value, cfg), cfg)

\* Dynamic dispatch of trader.maybe_generate_order on the trader's class.
MaybeGenerateOrder(t, draw, lastp, sentiment_value, cfg) ==
    IF t.kind = "limited"
    THEN WealthLimitedMaybeGenerateOrder(t, draw, lastp, sentiment_value, cfg)
    ELSE RandomMaybeGenerateOrder(t, draw, lastp, sentiment_value, cfg)

\* Variant of ApplyFill: settled at the order's limit price.
ApplyFillAtLimit(t, order, fill_price, fill_volume) ==
    IF t.kind = "random" \/ RLe(fill_volume, Zero) THEN t
    ELSE IF order.side = "buy"
         THEN [t EXCEPT !.wealth = RSub(@, RMul(order.price, fill_volume)),
                        !.holdings = RAdd(@, fill_volume)]
         ELSE [t EXCEPT !.wealth = RAdd(@, RMul(order.price, fill_volume)),
                        !.holdings = RSub(@, fill_volume)]

\* WealthLimitedTrader.apply_fill (Trader.apply_fill of a RandomTrader does
\* nothing): the trader after the fill.
ApplyFill(t, order, fill_price, fill_volume) ==
    IF t.kind = "random" \/ RLe(fill_volume, Zero) THEN t
    ELSE IF order.side = "buy"
         THEN [t EXCEPT !.wealth = RSub(@, RMul(fill_price, fill_volume)),
                        !.holdings = RAdd(@, fill_volume)]
         ELSE [t EXCEPT !.wealth = RAdd(@, RMul(fill_price, fill_volume)),
                        !.holdings = RSub(@, fill_volume)]

(***************************************************************************)
(* manipulation/manipulator.py                                             *)
(***************************************************************************)
\* Variant of CurrentPhase: the dump phase ends after dump_days and the cycle
\* starts again.
CurrentPhaseCyclic(m, d) ==
    IF d < m.accumulation_days THEN "accumulate"
    ELSE IF d < m.accumulation_days + m.pump_days THEN "pump"
    ELSE IF d < m.accumulation_days + m.pump_days + m.dump_days THEN "dump"
         ELSE "accumulate"

\* Manipulator.current_phase
CurrentPhase(m, d) ==
    IF d < m.accumulation_days THEN "accumulate"
    ELSE IF d < m.accumulation_days + m.pump_days THEN "pump"
         ELSE "dump"

\* Lines 91-96: the accumulate branch calls
\* WealthLimitedTrader.maybe_generate_order, the pump and dump branches do not.
BatchRaises(m, d) == CurrentPhase(m, d) = "accumulate" /\ SuperRaises(m)

\* Manipulator.maybe_generate_order_batch: the list of orders of the day.
AccumulateOrders(base_order) ==
    IF base_order = None THEN <<>> ELSE <<base_order[1]>>

\* Variant of PumpOrders: the wash sell is priced at the buy price.
PumpOrdersAtOnePrice(m, p, v) ==
    IF RGt(v, Zero)
    THEN <<Order(m.trader_id \o "_pump_buy", "buy", p, v),
           Order(m.trader_id \o "_pump_sell", "sell", p, v)>>
    ELSE <<>>

PumpOrders(m, p, v) ==
    IF RGt(v, Zero)
    THEN <<Order(m.trader_id \o "_pump_buy", "buy", p, v),
           Order(m.trader_id \o "_pump_sell", "sell", RMul(p, <<1001, 1000>>), v)>>
    ELSE <<>>

\* Variant of PumpVolume: the pump buys 2 * max_daily_volume whatever the
\* wealth.
PumpVolumeIgnoringWealth(m, p, cfg) ==
    RMax(RMul(cfg.max_daily_volume, R(2)), Zero)

PumpVolume(m, p, cfg) ==
    RMax(RMin(RDiv(m.wealth, RMax(p, cfg.price_tick)),
              RMul(cfg.max_daily_volume, R(2))),
         Zero)

DumpOrders(m, p, v) ==
    IF RGt(v, Zero) THEN <<Order(m.trader_id \o "_dump", "sell", p, v)>> ELSE <<>>

PumpBatch(m, p, cfg) == PumpOrders(m, p, PumpVolume(m, p, cfg))

\* Variant of MaybeGenerateOrderBatch: the dump offers 3 * max_daily_volume
\* whatever the holdings.
BatchDumpingAtFullSize(m, d, draw, lastp, sentiment_value, cfg) ==
    IF CurrentPhase(m, d) = "accumulate"
    THEN AccumulateOrders(WealthLimitedMaybeGenerateOrder(
             m, draw, RMul(lastp, <<49, 50>>), sentiment_value, cfg))
    ELSE IF CurrentPhase(m, d) = "pump"
    THEN PumpBatch(m, RMax(RMul(lastp, <<51, 50>>), cfg.price_tick), cfg)
    ELSE DumpOrders(m, RMax(RMul(lastp, <<99, 100>>), cfg.price_tick),
                    RMul(cfg.max_daily_volume, R(3)))

MaybeGenerateOrderBatch(m, d, draw, lastp, sentiment_value, cfg) ==
    IF CurrentPhase(m, d) = "accumulate"
    THEN AccumulateOrders(WealthLimitedMaybeGenerateOrder(
             m, draw, RMul(lastp, <<49, 50>>), sentiment_value, cfg))
    ELSE IF CurrentPhase(m, d) = "pump"
    THEN PumpBatch(m, RMax(RMul(lastp, <<51, 50>>), cfg.price_tick), cfg)
    ELSE DumpOrders(m, RMax(RMul(lastp, <<99, 100>>), cfg.price_tick),
                    RMin(m.holdings, RMul(cfg.max_daily_volume, R(3))))

(***************************************************************************)
(* manipulation/layering.py.  A LayeringManipulator is the record of its   *)
(* attributes; a layer is the tuple (layer_index, order).  A draw stands   *)
(* for the values the generator returns in one call: add                   *)
(* (not random() > layer_probability), side (random() < 0.5), volume       *)
(* (uniform(0.1, max_daily_volume)), refresh                               *)
(* (random() < layer_probability * 0.5), layer_idx (randrange),            *)
(* price_variation and volume_variation (gauss) and remove                 *)
(* (random() < removal_rate).                                              *)
(***************************************************************************)
RECURSIVE RPow(_, _)
RPow(a, k) == IF k = 0 THEN R(1) ELSE RMul(a, RPow(a, k - 1))

\* LayeringManipulator.__init__
LayeringManipulator(trader_id, wealth, holdings, n_layers, layer_spacing, volume_decay, phase_duration, target_side, base_volume_multiplier) ==
    [trader_id |-> trader_id, kind |-> "layering", wealth |-> wealth,
     holdings |-> holdings, n_layers |-> n_layers,
     layer_spacing |-> layer_spacing, volume_decay |-> volume_decay,
     phase_duration |-> phase_duration, target_side |-> target_side,
     base_volume_multiplier |-> base_volume_multiplier,
     _phase |-> "build", _phase_counter |-> 0, _active_layers |-> <<>>,
     _current_side |-> None, _cycle_counter |-> 0]

\* Variant of NextPhase: the layers are kept when the profit phase begins.
NextPhaseKeepingLayers(l) ==
    IF l._phase = "build" THEN [l EXCEPT !._phase = "maintain"]
    ELSE IF l._phase = "maintain" THEN [l EXCEPT !._phase = "remove"]
    ELSE IF l._phase = "remove" THEN [l EXCEPT !._phase = "profit"]
    ELSE [l EXCEPT !._phase = "build",
                   !._cycle_counter = @ + 1,
                   !._current_side = IF l.target_side = "random" THEN None ELSE @]

\* Lines 165-177: the transition to the next phase.
NextPhase(l) ==
    IF l._phase = "build" THEN [l EXCEPT !._phase = "maintain"]
    ELSE IF l._phase = "maintain" THEN [l EXCEPT !._phase = "remove"]
    ELSE IF l._phase = "remove"
    THEN [l EXCEPT !._phase = "profit", !._active_layers = <<>>]
    ELSE [l EXCEPT !._phase = "build",
                   !._cycle_counter = @ + 1,
                   !._current_side = IF l.target_side = "random" THEN None ELSE @]

\* LayeringManipulator._update_phase
UpdatePhase(l) ==
    IF l._phase_counter + 1 >= l.phase_duration
    THEN NextPhase([l EXCEPT !._phase_counter = 0])
    ELSE [l EXCEPT !._phase_counter = @ + 1]

\* LayeringManipulator._get_layer_side: the side, and the manipulator with
\* the side remembered.
GetLayerSide(l, draw) ==
    IF l._current_side # None THEN l._current_side[1]
    ELSE IF l.target_side = "random" THEN draw.side ELSE l.target_side

WithLayerSide(l, side) == [l EXCEPT !._current_side = Some(side)]

\* A call's outcome: the manipulator after the call and the value returned.
Outcome(l, result) == [self |-> l, result |-> result]

\* LayeringManipulator._build_layer
LayerPrice(l, side, layer_index, lastp, cfg) ==
    IF side = "buy"
    THEN RMax(RMul(lastp, RSub(R(1), RMul(R(layer_index + 1), l.layer_spacing))),
              cfg.price_tick)
    ELSE RMul(lastp, RAdd(R(1), RMul(R(layer_index + 1), l.layer_spacing)))

LayerVolume(l, draw, layer_index) ==
    RMul(RMul(R(draw.volume), l.base_volume_multiplier),
         RPow(l.volume_decay, layer_index))

LayerMaxVolume(l, side, p, cfg) ==
    IF side = "buy"
    THEN RMin(RDiv(l.wealth, RMax(p, cfg.price_tick)),
              RMul(cfg.max_daily_volume, l.base_volume_multiplier))
    ELSE RMin(l.holdings, RMul(cfg.max_daily_volume, l.base_volume_multiplier))

LayerOrder(l, side, layer_index, p, v) ==
    Order(l.trader_id \o "_layer_" \o ToString(l._cycle_counter) \o "_"
              \o ToString(layer_index),
          side, p, v)

TrackLayer(l, layer_index, order) ==
    Outcome([l EXCEPT !._active_layers =
                 Append(@, [layer_index |-> layer_index, order |-> order])],
            Some(order))

PlaceLayer(l, side, layer_index, p, layer_volume, max_volume) ==
    IF RLe(max_volume, Zero) \/ RLe(RMin(layer_volume, max_volume), Zero)
    THEN Outcome(l, None)
    ELSE TrackLayer(l, layer_index,
                    LayerOrder(l, side, layer_index, p,
                               RMin(layer_volume, max_volume)))

BuildLayerAt(l, side, layer_index, p, draw, cfg) ==
    PlaceLayer(l, side, layer_index, p, LayerVolume(l, draw, layer_index),
               LayerMaxVolume(l, side, p, cfg))

BuildLayerOn(l, side, draw, lastp, cfg) ==
    BuildLayerAt(l, side, Len(l._active_layers),
                 LayerPrice(l, side, Len(l._active_layers), lastp, cfg), draw, cfg)

BuildLayer(l, draw, lastp, cfg) ==
    IF ~draw.add \/ Len(l._active_layers) >= l.n_layers THEN Outcome(l, None)
    ELSE BuildLayerOn(WithLayerSide(l, GetLayerSide(l, draw)),
                      GetLayerSide(l, draw), draw, lastp, cfg)

\* LayeringManipulator._maintain_layers
RefreshedOrder(old_order, draw, cfg) ==
    Order(old_order.trader_id \o "_refresh", old_order.side,
          RMax(RMul(old_order.price, draw.price_variation), cfg.price_tick),
          RMax(RMul(old_order.volume, draw.volume_variation), <<1, 10>>))

ReplaceLayer(l, layer_idx, new_order) ==
    Outcome([l EXCEPT !._active_layers[layer_idx + 1] =
                 [layer_index |-> layer_idx, order |-> new_order]],
            Some(new_order))

MaintainLayers(l, draw, lastp, cfg) ==
    IF l._active_layers = <<>> \/ ~draw.refresh THEN Outcome(l, None)
    ELSE ReplaceLayer(l, draw.layer_idx,
                      RefreshedOrder(l._active_layers[draw.layer_idx + 1].order,
                                     draw, cfg))

\* LayeringManipulator._remove_layer
RemoveLayer(l, draw) ==
    IF l._active_layers = <<>> \/ ~draw.remove THEN Outcome(l, None)
    ELSE Outcome([l EXCEPT !._active_layers = SubSeq(@, 1, Len(@) - 1)], None)

\* LayeringManipulator._generate_profit_order
ProfitPrice(profit_side, lastp, cfg) ==
    IF profit_side = "sell" THEN RMul(lastp, <<101, 100>>)
    ELSE RMax(RMul(lastp, <<99, 100>>), cfg.price_tick)

ProfitMaxVolume(l, profit_side, p, cfg) ==
    IF profit_side = "buy"
    THEN RMin(RDiv(l.wealth, RMax(p, cfg.price_tick)), cfg.max_daily_volume)
    ELSE RMin(l.holdings, cfg.max_daily_volume)

ProfitOrder(l, profit_side, p, v, max_volume) ==
    IF RLe(max_volume, Zero) \/ RLe(RMin(v, max_volume), Zero) THEN None
    ELSE Some(Order(l.trader_id \o "_profit_" \o ToString(l._cycle_counter),
                    profit_side, p, RMin(v, max_volume)))

ProfitOrderAt(l, profit_side, p, draw, cfg) ==
    ProfitOrder(l, profit_side, p, R(draw.volume),
                ProfitMaxVolume(l, profit_side, p, cfg))

GenerateProfitOrder(l, draw, lastp, sentiment_value, cfg) ==
    IF l._current_side = None THEN Outcome(l, None)
    ELSE IF l._current_side[1] = "buy"
    THEN Outcome(l, ProfitOrderAt(l, "sell", ProfitPrice("sell", lastp, cfg), draw, cfg))
    ELSE Outcome(l, ProfitOrderAt(l, "buy", ProfitPrice("buy", lastp, cfg), draw, cfg))

\* Lines 144-155: the logic of the phase _update_phase left the manipulator in.
PhaseLogic(l, draw, lastp, sentiment_value, cfg) ==
    IF l._phase = "build" THEN BuildLayer(l, draw, lastp, cfg)
    ELSE IF l._phase = "maintain" THEN MaintainLayers(l, draw, lastp, cfg)
    ELSE IF l._phase = "remove" THEN RemoveLayer(l, draw)
    ELSE GenerateProfitOrder(l, draw, lastp, sentiment_value, cfg)

\* LayeringManipulator.maybe_generate_order
LayeringMaybeGenerateOrder(l, draw, lastp, sentiment_value, cfg) ==
    PhaseLogic(UpdatePhase(l), draw, lastp, sentiment_value, cfg)

\* The draws one call can ask its generator for, given the phase the call
\* runs in.
NoLayeringDraw ==
    [add |-> FALSE, side |-> "buy", volume |-> 1, refresh |-> FALSE,
     layer_idx |-> 0, price_variation |-> R(1), volume_variation |-> R(1),
     remove |-> FALSE]

LayeringDraws(l, cfg) ==
    IF l._phase = "build"
    THEN {NoLayeringDraw}
         \cup {[NoLayeringDraw EXCEPT !.add = TRUE, !.side = sd, !.volume = v] :
                  sd \in {"buy", "sell"}, v \in 1..cfg.max_daily_volume[1]}
    ELSE IF l._phase = "maintain"
    THEN {NoLayeringDraw}
         \cup {[NoLayeringDraw EXCEPT !.refresh = TRUE, !.layer_idx = i,
                                      !.price_variation = pv,
                                      !.volume_variation = vv] :
                  i \in 0..(Len(l._active_layers) - 1),
                  pv \in {R(1), <<1, 2>>}, vv \in {R(1), <<1, 100>>}}
    ELSE IF l._phase = "remove"
    THEN {NoLayeringDraw, [NoLayeringDraw EXCEPT !.remove = TRUE]}
    ELSE {[NoLayeringDraw EXCEPT !.volume = v] : v \in 1..cfg.max_daily_volume[1]}

(***************************************************************************)
(* core/simulation.py: SimulationRunner.run                                *)
(***************************************************************************)
\* build_traders: ids are zero-padded; RandomTraders in unlimited mode,
\* WealthLimitedTraders with their drawn wealth and holdings otherwise.
TraderId(idx) == "trader_000" \o ToString(idx)

BuildTraders(cfg, wealth, holdings) ==
    [i \in 1..cfg.n_traders |->
        IF cfg.wealth_mode = "limited"
        THEN [trader_id |-> TraderId(i - 1), kind |-> "limited",
              wealth |-> wealth, holdings |-> holdings]
        ELSE [trader_id |-> TraderId(i - 1), kind |-> "random",
              wealth |-> Zero, holdings |-> Zero]]

\* MarketState(day, price, volume, sentiment_value, order_curves=None,
\* manipulation_score=None).  A state keeps a reference to the day's
\* OrderCurves object, never a copy: the field is None or Some(d), the
\* reference to the curves built on day d.
MarketState(d, p, v, sentiment_value, curves) ==
    [day |-> d, price |-> p, volume |-> v, sentiment_value |-> sentiment_value,
     order_curves |-> curves, manipulation_score |-> None]

\* The orders of the day in collection order: every regular trader in list
\* order, then the manipulator's batch.
RECURSIVE TraderOrders(_, _, _, _, _, _)
ConsOrder(order, i, rest) ==
    IF order = None THEN rest ELSE <<[order |-> order[1], owner |-> i]>> \o rest

TraderOrders(ts, draws, i, lastp, sentiment_value, cfg) ==
    IF i > Len(ts) THEN <<>>
    ELSE ConsOrder(MaybeGenerateOrder(ts[i], draws[i], lastp, sentiment_value, cfg),
                   i,
                   TraderOrders(ts, draws, i + 1, lastp, sentiment_value, cfg))

OwnedByManipulator(batch) ==
    [k \in 1..Len(batch) |-> [order |-> batch[k], owner |-> 0]]

\* A TypeError raised by a trader's or the manipulator's call aborts run.
CollectRaises(ts, m, d) ==
    \/ \E i \in 1..Len(ts) : SuperRaises(ts[i])
    \/ m # None /\ BatchRaises(m[1], d)

\* Order.__post_init__ raises inside the trader's call and aborts run.
AllValid(coll) == \A k \in 1..Len(coll) : OrderValid(coll[k].order)

ManipulatorOrders(m, d, draw, lastp, sentiment_value, cfg) ==
    IF m = None THEN <<>>
    ELSE OwnedByManipulator(
             MaybeGenerateOrderBatch(m[1], d, draw, lastp, sentiment_value, cfg))

\* collect_order gives every order its identity; here the position in the
\* day's collection.
WithIds(all) ==
    [k \in 1..Len(all) |->
        [order |-> [all[k].order EXCEPT !.id = k], owner |-> all[k].owner]]

Collected(ts, m, d, draws, mdraw, lastp, sentiment_value, cfg) ==
    WithIds(TraderOrders(ts, draws, 1, lastp, sentiment_value, cfg)
            \o ManipulatorOrders(m, d, mdraw, lastp, sentiment_value, cfg))

OrderList(sel) == [k \in 1..Len(sel) |-> sel[k].order]

OrdersOfSide(coll, side) ==
    OrderList(SelectSeq(coll, LAMBDA c : c.order.side = side))

\* Variant of BuyFillCandidates: buys strictly above the clearing price.
BuyFillCandidatesStrict(buy, p) ==
    SortedDescending(SelectSeq(buy, LAMBDA o : RGt(o.price, p)))

\* Variant of BuyFillCandidates: the eligible buys in arrival order.
BuyFillCandidatesInArrivalOrder(buy, p) ==
    SelectSeq(buy, LAMBDA o : RGe(o.price, p))

\* Lines 70-78 of run: curves, equilibrium, eligible orders sorted most
\* aggressive first, and the two allocations.
BuyFillCandidates(buy, p) ==
    SortedDescending(SelectSeq(buy, LAMBDA o : RGe(o.price, p)))

\* Variant of SellFillCandidates: sells strictly below the clearing price.
SellFillCandidatesStrict(sell, p) ==
    SortedAscending(SelectSeq(sell, LAMBDA o : RLt(o.price, p)))

\* Line 75 of run: the eligible sells, cheapest first.
SellFillCandidates(sell, p) ==
    SortedAscending(SelectSeq(sell, LAMBDA o : RLe(o.price, p)))

Allocated(buy, sell, curves, eq) ==
    [order_curves |-> curves, price |-> eq[1], volume |-> eq[2],
     buy_fills  |-> AllocateFills(BuyFillCandidates(buy, eq[1]), eq[2]),
     sell_fills |-> AllocateFills(SellFillCandidates(sell, eq[1]), eq[2])]

Cleared(buy, sell, curves) ==
    Allocated(buy, sell, curves, FindEquilibriumPrice(curves))

ClearDay(buy, sell, cfg) ==
    Cleared(buy, sell, BuildOrderCurves(buy, sell, cfg.price_tick))

\* Variant of SettleOne: a fill of a regular trader's order is applied to the
\* first regular trader, whoever owns the order.
SettleOneIgnoringOwner(pop, f, owner, p) ==
    IF ~RGt(f.fill, Zero) THEN pop
    ELSE IF owner = 0
    THEN [pop EXCEPT !.manipulator = Some(ApplyFill(@[1], f.order, p, f.fill))]
    ELSE [pop EXCEPT !.traders[1] = ApplyFill(@, f.order, p, f.fill)]

\* Variant of SettleOne: a fill of the manipulator's order is applied to the
\* first regular trader.
SettleOneOnFirstTrader(pop, f, owner, p) ==
    IF ~RGt(f.fill, Zero) THEN pop
    ELSE IF owner = 0
    THEN [pop EXCEPT !.traders[1] = ApplyFill(@, f.order, p, f.fill)]
    ELSE [pop EXCEPT !.traders[owner] = ApplyFill(@, f.order, p, f.fill)]

\* Lines 80-83 of run: every fill is applied to the owner of its order.
SettleOne(pop, f, owner, p) ==
    IF ~RGt(f.fill, Zero) THEN pop
    ELSE IF owner = 0
    THEN [pop EXCEPT !.manipulator = Some(ApplyFill(@[1], f.order, p, f.fill))]
    ELSE [pop EXCEPT !.traders[owner] = ApplyFill(@, f.order, p, f.fill)]

RECURSIVE SettleFills(_, _, _, _)
SettleFills(pop, fills, owners, p) ==
    IF fills = <<>> THEN pop
    ELSE SettleFills(SettleOne(pop, Head(fills), owners[Head(fills).order.id], p),
                     Tail(fills), owners, p)

\* The configurations, populations and manipulators the runs start from.
Configs ==
    [n_traders : {2}, initial_price : {R(3)}, max_daily_volume : {R(2)},
     wealth_mode : {"unlimited", "limited"}, price_tick : {R(1), R(2)}]

Manipulators ==
    {None}
    \cup {Some([trader_id |-> "manip", kind |-> "limited", wealth |-> R(6),
                holdings |-> R(1), accumulation_days |-> a, pump_days |-> 1,
                dump_days |-> 1]) : a \in 0..1}

\* The draws the manipulator's generator is asked for on day d: Manipulator
\* draws only in its accumulate phase.
ManipulatorDraws(m, d, cfg) ==
    IF m # None /\ CurrentPhase(m[1], d) = "accumulate" THEN Draws(cfg) ELSE {Inactive}

Init ==
    /\ config \in Configs
    /\ traders = BuildTraders(config, R(6), R(1))
    /\ manipulator \in Manipulators
    /\ n_days \in 0..MaxDays
    \* The 0.98, 1.02, 1.001 and 0.99 factors of a Manipulator multiply the
    \* denominators of the exact prices day after day; its runs stay within
    \* two days, one day when the first is an accumulate day, where every
    \* product stays below 2^31.
    /\ manipulator # None => n_days <= 2 - manipulator[1].accumulation_days
    /\ day = 0
    /\ last_price = config.initial_price
    /\ states = <<>>
    /\ pc = "loop"
    /\ buy_orders = <<>>
    /\ sell_orders = <<>>
    /\ owner_lookup = <<>>
    /\ order_curves = None
    /\ price = None
    /\ volume = None
    /\ buy_fills = <<>>
    /\ sell_fills = <<>>
    /\ call = None
    /\ slots_super \in BOOLEAN

\* Lines 34-63: the collect phase of one day.
CollectOrders ==
    /\ pc = "loop"
    /\ day < n_days
    /\ IF CollectRaises(traders, manipulator, day)
       THEN /\ pc' = "raised"
            /\ UNCHANGED <<buy_orders, sell_orders, owner_lookup>>
       ELSE \E draws \in [1..Len(traders) -> Draws(config)],
               mdraw \in ManipulatorDraws(manipulator, day, config) :
               \E coll \in {Collected(traders, manipulator, day, draws, mdraw,
                                      last_price, SentimentValueAt(day), config)} :
                   /\ buy_orders' = OrdersOfSide(coll, "buy")
                   /\ sell_orders' = OrdersOfSide(coll, "sell")
                   /\ owner_lookup' = [k \in 1..Len(coll) |-> coll[k].owner]
                   /\ pc' = IF AllValid(coll) THEN "collected" ELSE "raised"
    /\ UNCHANGED <<slots_super, call, config, traders, manipulator, n_days, day, last_price, states,
                   order_curves, price, volume, buy_fills, sell_fills>>

\* Variant of EmptyDay: the state of an empty day carries initial_price.
EmptyDayInitialPrice ==
    /\ pc = "collected"
    /\ buy_orders = <<>> /\ sell_orders = <<>>
    /\ states' = Append(states,
           MarketState(day, config.initial_price, Zero, SentimentValueAt(day), None))
    /\ day' = day + 1
    /\ pc' = "loop"
    /\ owner_lookup' = <<>>
    /\ UNCHANGED <<slots_super, call, config, traders, manipulator, n_days, last_price, buy_orders,
                   sell_orders, order_curves, price, volume, buy_fills, sell_fills>>

\* Lines 65-68: no order was collected.
EmptyDay ==
    /\ pc = "collected"
    /\ buy_orders = <<>> /\ sell_orders = <<>>
    /\ states' = Append(states,
           MarketState(day, last_price, Zero, SentimentValueAt(day), None))
    /\ day' = day + 1
    /\ pc' = "loop"
    /\ owner_lookup' = <<>>
    /\ UNCHANGED <<slots_super, call, config, traders, manipulator, n_days, last_price, buy_orders,
                   sell_orders, order_curves, price, volume, buy_fills, sell_fills>>

\* Lines 70-78: clear phase and allocation phase.
Clear ==
    /\ pc = "collected"
    /\ ~(buy_orders = <<>> /\ sell_orders = <<>>)
    /\ \E r \in {ClearDay(buy_orders, sell_orders, config)} :
           /\ order_curves' = Some(r.order_curves)
           /\ price' = r.price
           /\ volume' = r.volume
           /\ buy_fills' = r.buy_fills
           /\ sell_fills' = r.sell_fills
    /\ pc' = "cleared"
    /\ UNCHANGED <<slots_super, call, config, traders, manipulator, n_days, day, last_price, states,
                   buy_orders, sell_orders, owner_lookup>>

\* Lines 80-93: settlement, the day's MarketState, last_price = price.  The
\* day's locals are dead from here on (lines 36-38 rebind them) and are reset.
Settle ==
    /\ pc = "cleared"
    /\ \E pop \in {SettleFills([traders |-> traders, manipulator |-> manipulator],
                               buy_fills \o sell_fills, owner_lookup, price)} :
           /\ traders' = pop.traders
           /\ manipulator' = pop.manipulator
    /\ states' = Append(states,
           MarketState(day, price, volume, SentimentValueAt(day), Some(day)))
    /\ last_price' = price
    /\ day' = day + 1
    /\ pc' = "loop"
    /\ buy_orders' = <<>>
    /\ sell_orders' = <<>>
    /\ owner_lookup' = <<>>
    /\ order_curves' = None
    /\ price' = None
    /\ volume' = None
    /\ buy_fills' = <<>>
    /\ sell_fills' = <<>>
    /\ UNCHANGED <<slots_super, call, config, n_days>>

\* Line 95: range(n_days) is exhausted and run returns states.
Return ==
    /\ pc = "loop"
    /\ day >= n_days
    /\ pc' = "done"
    /\ UNCHANGED <<slots_super, call, config, traders, manipulator, n_days, day, last_price, states,
                   buy_orders, sell_orders, owner_lookup, order_curves, price,
                   volume, buy_fills, sell_fills>>

Next == CollectOrders \/ EmptyDay \/ Clear \/ Settle \/ Return

Spec == Init /\ [][Next]_vars

(***************************************************************************)
(* The auction functions on their own: build_order_curves,                 *)
(* find_equilibrium_price and allocate_fills applied to any list of valid  *)
(* orders.  Orders are submitted buys first, each side in non-decreasing   *)
(* (price, volume): curves and equilibrium are sums over the orders and do *)
(* not depend on their order.                                              *)
(***************************************************************************)
AuctionConfigs ==
    [n_traders : {0}, initial_price : {R(3)}, max_daily_volume : {R(MaxOrderVolume)},
     wealth_mode : {"unlimited"}, price_tick : {R(1), R(2)}]

InitAuction ==
    /\ config \in AuctionConfigs
    /\ traders = <<>>
    /\ manipulator = None
    /\ n_days = 0
    /\ day = 0
    /\ last_price = config.initial_price
    /\ states = <<>>
    /\ pc = "input"
    /\ buy_orders = <<>>
    /\ sell_orders = <<>>
    /\ owner_lookup = <<>>
    /\ order_curves = None
    /\ price = None
    /\ volume = None
    /\ buy_fills = <<>>
    /\ sell_fills = <<>>
    /\ call = None
    /\ slots_super \in BOOLEAN

NotBefore(o, side_orders) ==
    IF side_orders = <<>> THEN TRUE
    ELSE IF side_orders[Len(side_orders)].price = o.price
         THEN RLe(side_orders[Len(side_orders)].volume, o.volume)
         ELSE RLt(side_orders[Len(side_orders)].price, o.price)

\* One more Order is constructed and handed to the auction.
SubmitOrder ==
    /\ pc = "input"
    /\ Len(buy_orders) + Len(sell_orders) < MaxOrders
    /\ \E side \in {"buy", "sell"}, p \in 1..MaxPrice, v \in 1..MaxOrderVolume :
          \E o \in {[Order(TraderId(Len(buy_orders) + Len(sell_orders)), side, R(p), R(v))
                        EXCEPT !.id = Len(buy_orders) + Len(sell_orders) + 1]} :
              /\ OrderValid(o)
              /\ IF side = "buy"
                 THEN /\ sell_orders = <<>>
                      /\ NotBefore(o, buy_orders)
                      /\ buy_orders' = Append(buy_orders, o)
                      /\ UNCHANGED sell_orders
                 ELSE /\ NotBefore(o, sell_orders)
                      /\ sell_orders' = Append(sell_orders, o)
                      /\ UNCHANGED buy_orders
    /\ UNCHANGED <<slots_super, call, config, traders, manipulator, n_days, day, last_price, states, pc,
                   owner_lookup, order_curves, price, volume, buy_fills, sell_fills>>

\* build_order_curves, find_equilibrium_price and the two allocate_fills calls
\* on the submitted orders.
ClearAuction ==
    /\ pc = "input"
    /\ \E r \in {ClearDay(buy_orders, sell_orders, config)} :
           /\ order_curves' = Some(r.order_curves)
           /\ price' = r.price
           /\ volume' = r.volume
           /\ buy_fills' = r.buy_fills
           /\ sell_fills' = r.sell_fills
    /\ pc' = "cleared"
    /\ UNCHANGED <<slots_super, call, config, traders, manipulator, n_days, day, last_price, states,
                   buy_orders, sell_orders, owner_lookup>>

NextAuction == SubmitOrder \/ ClearAuction

SpecAuction == InitAuction /\ [][NextAuction]_vars

(***************************************************************************)
(* core/traders.py and the Order constructor on their own: one             *)
(* WealthLimitedTrader, any wealth and holdings, and one call to           *)
(* Order(...), to maybe_generate_order or to apply_fill.                   *)
(***************************************************************************)
TraderConfigs ==
    [n_traders : {1}, initial_price : {R(3)}, max_daily_volume : {R(2)},
     wealth_mode : {"limited"}, price_tick : {R(1), R(2)}]

TraderWealths == {R(-1), Zero, R(1), R(6)}
TraderHoldings == {R(-1), Zero, R(1), R(3)}

\* The locals of run before its first day.
RunNotStarted ==
    /\ n_days = 0
    /\ day = 0
    /\ states = <<>>
    /\ buy_orders = <<>>
    /\ sell_orders = <<>>
    /\ owner_lookup = <<>>
    /\ order_curves = None
    /\ price = None
    /\ volume = None
    /\ buy_fills = <<>>
    /\ sell_fills = <<>>

InitTrader ==
    /\ config \in TraderConfigs
    /\ \E w \in TraderWealths, h \in TraderHoldings :
           traders = <<[trader_id |-> TraderId(0), kind |-> "limited",
                        wealth |-> w, holdings |-> h]>>
    /\ manipulator = None
    /\ last_price = config.initial_price
    /\ pc = "ready"
    /\ call = None
    /\ slots_super \in BOOLEAN
    /\ RunNotStarted

\* Order(trader_id, side, price, volume) with any arguments; an order whose
\* construction succeeds is collected as collect_order does (lines 38-43 of
\* run).
ConstructOrderCall ==
    /\ pc = "ready"
    /\ \E side \in {"buy", "sell", "hold"}, p \in -1..2, v \in -1..2 :
          \E o \in {Order(traders[1].trader_id, side, R(p), R(v))} :
              /\ call' = [op |-> "Order", order |-> o, raised |-> ~OrderValid(o)]
              /\ buy_orders' = IF OrderValid(o) /\ o.side = "buy"
                               THEN Append(buy_orders, o) ELSE buy_orders
              /\ sell_orders' = IF OrderValid(o) /\ o.side # "buy"
                                THEN Append(sell_orders, o) ELSE sell_orders
    /\ pc' = "returned"
    /\ UNCHANGED <<slots_super, config, traders, manipulator, n_days, day, last_price, states,
                   owner_lookup, order_curves, price, volume, buy_fills, sell_fills>>

\* trader.maybe_generate_order(last_price, sentiment_value, config)
GenerateOrderCall ==
    /\ pc = "ready"
    /\ \E draw \in Draws(config) :
          call' = [op |-> "maybe_generate_order", draw |-> draw,
                   raised |-> SuperRaises(traders[1]),
                   result |-> IF SuperRaises(traders[1]) THEN None
                              ELSE WealthLimitedMaybeGenerateOrder(
                                       traders[1], draw, last_price,
                                       SentimentValueAt(day), config)]
    /\ pc' = "returned"
    /\ UNCHANGED <<slots_super, config, traders, manipulator, n_days, day, last_price, states,
                   buy_orders, sell_orders, owner_lookup, order_curves, price,
                   volume, buy_fills, sell_fills>>

\* trader.apply_fill(order, price=..., volume=...) with any fill price and
\* fill volume.
ApplyFillCall ==
    /\ pc = "ready"
    /\ \E side \in {"buy", "sell"}, limit \in 1..2, size \in 1..2,
          p \in 1..3, v \in -1..2 :
          \E o \in {Order(traders[1].trader_id, side, R(limit), R(size))} :
              /\ call' = [op |-> "apply_fill", before |-> traders[1], order |-> o,
                          price |-> R(p), volume |-> R(v)]
              /\ traders' = <<ApplyFill(traders[1], o, R(p), R(v))>>
    /\ pc' = "returned"
    /\ UNCHANGED <<slots_super, config, manipulator, n_days, day, last_price, states,
                   buy_orders, sell_orders, owner_lookup, order_curves, price,
                   volume, buy_fills, sell_fills>>

NextTrader == ConstructOrderCall \/ GenerateOrderCall \/ ApplyFillCall

SpecTrader == InitTrader /\ [][NextTrader]_vars

(***************************************************************************)
(* manipulation/manipulator.py on its own: one Manipulator with any phase  *)
(* lengths, wealth and holdings, asked for its batch day after day.        *)
(***************************************************************************)
ManipulatorConfigs ==
    [n_traders : {0}, initial_price : {R(1), R(3)}, max_daily_volume : {R(1)},
     wealth_mode : {"limited"}, price_tick : {R(1), R(2)}]

ManipulatorWealths == {R(-1), Zero, R(2), R(6)}
ManipulatorHoldings == {R(-1), Zero, R(2), R(4)}

InitManipulator ==
    /\ config \in ManipulatorConfigs
    /\ traders = <<>>
    /\ \E w \in ManipulatorWealths, h \in ManipulatorHoldings,
          a \in 0..MaxPhaseDays, b \in 0..MaxPhaseDays, c \in 0..MaxPhaseDays :
           manipulator = Some([trader_id |-> "manip", kind |-> "limited",
                               wealth |-> w, holdings |-> h,
                               accumulation_days |-> a, pump_days |-> b,
                               dump_days |-> c])
    /\ last_price = config.initial_price
    /\ pc = "ready"
    /\ call = None
    /\ slots_super \in BOOLEAN
    /\ RunNotStarted

\* Lines 54-61 of run for the next day, on their own:
\* manipulator.maybe_generate_order_batch(day, last_price, ...), whose first
\* statement is phase = self.current_phase(day).
ManipulatorDay ==
    /\ pc = "ready"
    /\ day <= 3 * MaxPhaseDays + 1
    /\ \E draw \in ManipulatorDraws(manipulator, day, config) :
          call' = [op |-> "maybe_generate_order_batch", day |-> day,
                   phase |-> CurrentPhase(manipulator[1], day),
                   raised |-> BatchRaises(manipulator[1], day),
                   orders |-> IF BatchRaises(manipulator[1], day) THEN <<>>
                              ELSE MaybeGenerateOrderBatch(
                                       manipulator[1], day, draw, last_price,
                                       SentimentValueAt(day), config)]
    /\ day' = day + 1
    /\ UNCHANGED <<slots_super, config, traders, manipulator, n_days, last_price, states, pc,
                   buy_orders, sell_orders, owner_lookup, order_curves, price,
                   volume, buy_fills, sell_fills>>

NextManipulator == ManipulatorDay

SpecManipulator == InitManipulator /\ [][NextManipulator]_vars

(***************************************************************************)
(* manipulation/layering.py on its own: one LayeringManipulator, any       *)
(* wealth, holdings, target side and phase duration, asked for its order   *)
(* turn after turn, one turn per day, at a steady price.                   *)
(***************************************************************************)
LayeringConfigs ==
    [n_traders : {1}, initial_price : {R(3)}, max_daily_volume : {R(2)},
     wealth_mode : {"limited"}, price_tick : {R(1)}]

InitLayering ==
    /\ config \in LayeringConfigs
    /\ \E w \in {Zero, R(6)}, h \in {Zero, R(3)}, n \in 1..2,
          pd \in 1..MaxPhaseDuration, ts \in {"buy", "sell", "random"} :
           traders = <<LayeringManipulator("layer_001", w, h, n, <<1, 4>>,
                                           <<1, 2>>, pd, ts, R(2))>>
    /\ manipulator = None
    /\ last_price = config.initial_price
    /\ pc = "ready"
    /\ call = None
    /\ slots_super \in BOOLEAN
    /\ RunNotStarted

\* manipulator.maybe_generate_order(last_price=..., sentiment_value=...,
\* config=...)
LayeringCall ==
    /\ pc = "ready"
    /\ day < MaxTurns
    /\ \E draw \in LayeringDraws(UpdatePhase(traders[1]), config) :
          \E r \in {LayeringMaybeGenerateOrder(traders[1], draw, last_price,
                                               SentimentValueAt(day), config)} :
              /\ traders' = <<r.self>>
              /\ call' = [op |-> "maybe_generate_order", turn |-> day + 1,
                          before |-> traders[1], result |-> r.result]
    /\ day' = day + 1
    /\ UNCHANGED <<slots_super, config, manipulator, n_days, last_price, states, pc,
                   buy_orders, sell_orders, owner_lookup, order_curves, price,
                   volume, buy_fills, sell_fills>>

NextLayering == LayeringCall

SpecLayering == InitLayering /\ [][NextLayering]_vars

(***************************************************************************)
(* manipulation/metrics.py and manipulation/detection.py.  rolling_zscore  *)
(* branches on std == 0, a comparison that rounding decides, so here every *)
(* float operation rounds its exact result to the nearest float, ties to   *)
(* even, as IEEE 754 arithmetic does; the floats have FloatBits            *)
(* significand bits instead of 53, and no exponent limit.                  *)
(***************************************************************************)
RECURSIVE Pow2(_)
Pow2(k) == IF k = 0 THEN 1 ELSE 2 * Pow2(k - 1)

\* The integer nearest to x >= 0, ties to even.
RoundHalfEven(x) ==
    IF 2 * (x[1] % x[2]) < x[2] THEN x[1] \div x[2]
    ELSE IF 2 * (x[1] % x[2]) > x[2] THEN (x[1] \div x[2]) + 1
    ELSE IF (x[1] \div x[2]) % 2 = 0 THEN x[1] \div x[2]
         ELSE (x[1] \div x[2]) + 1

RECURSIVE FRoundPos(_)
FRoundPos(x) ==
    IF RGe(x, R(Pow2(FloatBits))) THEN RMul(R(2), FRoundPos(RDiv(x, R(2))))
    ELSE IF RLt(x, R(Pow2(FloatBits - 1))) THEN RDiv(FRoundPos(RMul(x, R(2))), R(2))
    ELSE R(RoundHalfEven(x))

\* The float nearest to the real x.
FRound(x) ==
    IF x = Zero THEN Zero
    ELSE IF RLt(x, Zero) THEN RSub(Zero, FRoundPos(RSub(Zero, x)))
    ELSE FRoundPos(x)

FAdd(a, b) == FRound(RAdd(a, b))
FSub(a, b) == FRound(RSub(a, b))
FMul(a, b) == FRound(RMul(a, b))
FDiv(a, b) == FRound(RDiv(a, b))
FAbs(a) == IF RLt(a, Zero) THEN RSub(Zero, a) ELSE a

\* x ** 0.5 for x > 0: the float nearest to the square root.
NearestRoot(x) ==
    CHOOSE m \in Pow2(FloatBits - 1)..Pow2(FloatBits) :
        /\ RLe(R((2 * m - 1) * (2 * m - 1)), RMul(R(4), x))
        /\ RLt(RMul(R(4), x), R((2 * m + 1) * (2 * m + 1)))

RECURSIVE FSqrtPos(_)
FSqrtPos(x) ==
    IF RGe(x, R(Pow2(2 * FloatBits))) THEN RMul(R(2), FSqrtPos(RDiv(x, R(4))))
    ELSE IF RLt(x, R(Pow2(2 * FloatBits - 2))) THEN RDiv(FSqrtPos(RMul(x, R(4))), R(2))
    ELSE R(NearestRoot(x))

FSqrt(x) == IF x = Zero THEN Zero ELSE FSqrtPos(x)

\* sum(...): the items added one by one, from the left, to the int 0.
RECURSIVE FSumFrom(_, _)
FSumFrom(acc, s) ==
    IF s = <<>> THEN acc ELSE FSumFrom(FAdd(acc, Head(s)), Tail(s))

FSum(s) == FSumFrom(Zero, s)

\* rolling_zscore, lines 35-47: the trailing window of index idx (from 1),
\* its mean, its sample standard deviation and the z-score.
WindowSlice(series, window, idx) ==
    SubSeq(series, (IF idx - window > 0 THEN idx - window ELSE 0) + 1, idx)

SliceMean(slice) == FDiv(FSum(slice), R(Len(slice)))

SquaredDeviations(slice, mean) ==
    [k \in 1..Len(slice) |-> FMul(FSub(slice[k], mean), FSub(slice[k], mean))]

SliceStd(slice, mean) ==
    IF Len(slice) > 1
    THEN FSqrt(FDiv(FSum(SquaredDeviations(slice, mean)), R(Len(slice) - 1)))
    ELSE Zero

Zscore(value, mean, std) ==
    IF std = Zero THEN Zero ELSE FDiv(FSub(value, mean), std)

ZscoreOfSlice(value, slice, mean) == Zscore(value, mean, SliceStd(slice, mean))

ZscoreAt(series, window, idx) ==
    ZscoreOfSlice(series[idx], WindowSlice(series, window, idx),
                  SliceMean(WindowSlice(series, window, idx)))

\* With window <= 0 the first window is empty and line 38 divides by
\* len(window_slice) == 0: ZeroDivisionError.
RollingZscoreRaises(series, window) == series # <<>> /\ window <= 0

RollingZscore(series, window) ==
    [idx \in 1..Len(series) |-> ZscoreAt(series, window, idx)]

\* Line 39: [abs(p) + abs(v) for p, v in zip(price_z, volume_z)]
AbsSums(price_z, volume_z) ==
    [i \in 1..MinLen(price_z, volume_z) |-> FAdd(FAbs(price_z[i]), FAbs(volume_z[i]))]

\* Variant of ComputePriceVolumeAnomaly: the sentiment is scored in place of
\* the volume.
AnomalyOfPriceAndSentiment(sts, window) ==
    AbsSums(RollingZscore([k \in 1..Len(sts) |-> sts[k].price], window),
            RollingZscore([k \in 1..Len(sts) |-> sts[k].sentiment_value], window))

\* compute_price_volume_anomaly
ComputePriceVolumeAnomaly(sts, window) ==
    AbsSums(RollingZscore([k \in 1..Len(sts) |-> sts[k].price], window),
            RollingZscore([k \in 1..Len(sts) |-> sts[k].volume], window))

\* attach_anomaly_scores: the states after the call.
WithScores(sts, scores) ==
    [i \in 1..Len(sts) |->
        IF i <= Len(scores) THEN [sts[i] EXCEPT !.manipulation_score = Some(scores[i])]
                            ELSE sts[i]]

AttachAnomalyScores(sts, window) ==
    WithScores(sts, ComputePriceVolumeAnomaly(sts, window))

\* The market states the detection functions are applied to, as run
\* returns them: days in order, any prices and volumes, and two settings of
\* the fields the score does not read (no sentiment and only empty days, or
\* a sentiment that changes from day to day and curves on every day).
DetectionPrices == {R(3), R(7)}
DetectionVolumes == {Zero, R(3)}

DetectionStates(n) ==
    {[i \in 1..n |-> MarketState(i - 1, prices[i], volumes[i], Zero, None)] :
        prices \in [1..n -> DetectionPrices], volumes \in [1..n -> DetectionVolumes]}
    \cup
    {[i \in 1..n |-> MarketState(i - 1, prices[i], volumes[i], R(i % 2), Some(i - 1))] :
        prices \in [1..n -> DetectionPrices], volumes \in [1..n -> DetectionVolumes]}

WindowSizes == -1..MaxWindow

InitDetection ==
    /\ config \in [n_traders : {0}, initial_price : {R(3)},
                   max_daily_volume : {R(1)}, wealth_mode : {"unlimited"},
                   price_tick : {R(1)}]
    /\ traders = <<>>
    /\ manipulator = None
    /\ n_days = 0
    /\ day = 0
    /\ last_price = config.initial_price
    /\ \E n \in 0..MaxStates : states \in DetectionStates(n)
    /\ pc = "ready"
    /\ buy_orders = <<>>
    /\ sell_orders = <<>>
    /\ owner_lookup = <<>>
    /\ order_curves = None
    /\ price = None
    /\ volume = None
    /\ buy_fills = <<>>
    /\ sell_fills = <<>>
    /\ call = None
    /\ slots_super \in BOOLEAN

\* rolling_zscore([state.price for state in states], window)
RollingZscoreCall ==
    /\ pc = "ready"
    /\ \E window \in WindowSizes :
          \E series \in {[k \in 1..Len(states) |-> states[k].price]} :
              call' = [op |-> "rolling_zscore", values |-> series,
                       window |-> window,
                       raised |-> RollingZscoreRaises(series, window),
                       result |-> IF RollingZscoreRaises(series, window) THEN <<>>
                                  ELSE RollingZscore(series, window)]
    /\ pc' = "returned"
    /\ UNCHANGED <<slots_super, config, traders, manipulator, n_days, day, last_price, states,
                   buy_orders, sell_orders, owner_lookup, order_curves, price,
                   volume, buy_fills, sell_fills>>

\* attach_anomaly_scores(states, window): the scores are computed before
\* the first assignment, so a call that raises leaves the states alone.
AttachAnomalyScoresCall ==
    /\ pc = "ready"
    /\ \E window \in WindowSizes :
          \E raised \in {RollingZscoreRaises(states, window)} :
              /\ call' = [op |-> "attach_anomaly_scores", before |-> states,
                          window |-> window, raised |-> raised]
              /\ states' = IF raised THEN states
                           ELSE AttachAnomalyScores(states, window)
    /\ pc' = "returned"
    /\ UNCHANGED <<slots_super, config, traders, manipulator, n_days, day, last_price,
                   buy_orders, sell_orders, owner_lookup, order_curves, price,
                   volume, buy_fills, sell_fills>>

NextDetection == RollingZscoreCall \/ AttachAnomalyScoresCall

SpecDetection == InitDetection /\ [][NextDetection]_vars

(***************************************************************************)
(* core/orders.py in floating point.  The number of grid points is the     *)
(* integer part of a quotient and every grid point is a rounded sum, so    *)
(* rounding decides which orders the last grid point reaches; here         *)
(* _ensure_price_grid and aggregate_orders are computed with the rounding  *)
(* floats of rolling_zscore.                                               *)
(***************************************************************************)
\* Line 88: price_tick * idx converts the int idx to a float first.
FloatGridPoints(min_price, steps, price_tick) ==
    [idx \in 1..steps |-> FAdd(min_price, FMul(price_tick, FRound(R(idx - 1))))]

FloatGridBetween(min_price, max_price, price_tick) ==
    FloatGridPoints(min_price,
                    RInt(FDiv(FSub(max_price, min_price), price_tick)) + 1,
                    price_tick)

FloatGridOver(prices, price_tick) ==
    IF prices = <<>> THEN <<price_tick>>
    ELSE FloatGridBetween(RMax(FSub(RMinSeq(prices), price_tick), price_tick),
                          FAdd(RMaxSeq(prices), price_tick),
                          price_tick)

FloatEnsurePriceGrid(buy, sell, price_tick) ==
    FloatGridOver(Prices(buy) \o Prices(sell), price_tick)

FloatBuyVolumeAt(buy, p) == FSum(Volumes(SelectSeq(buy, LAMBDA o : RGe(o.price, p))))
FloatSellVolumeAt(sell, p) == FSum(Volumes(SelectSeq(sell, LAMBDA o : RLe(o.price, p))))

FloatCurvesOver(grid, buy, sell) ==
    [price_grid |-> grid,
     buy_curve  |-> [i \in 1..Len(grid) |-> FloatBuyVolumeAt(buy, grid[i])],
     sell_curve |-> [i \in 1..Len(grid) |-> FloatSellVolumeAt(sell, grid[i])]]

\* Lines 119-121: an empty grid is replaced by [price_tick].
GridOrTick(grid, price_tick) == IF grid = <<>> THEN <<price_tick>> ELSE grid

FloatAggregateOrders(buy, sell, price_tick) ==
    FloatCurvesOver(GridOrTick(FloatEnsurePriceGrid(buy, sell, price_tick), price_tick),
                    buy, sell)

\* The orders aggregate_orders is applied to: up to MaxOrders valid orders,
\* buys and sells, whose prices and the tick are floats.
CurveTicks == {FRound(<<3, 8>>), R(1)}
CurvePrices == {FRound(<<1, 4>>), FRound(<<1, 2>>), R(1), FRound(<<5, 4>>)}

CurveOrders(side) ==
    {Order(side, side, p, R(v)) : p \in CurvePrices, v \in 1..MaxOrderVolume}

CurveOrderLists(side, n) == [1..n -> CurveOrders(side)]

InitCurves ==
    /\ config \in [n_traders : {0}, initial_price : {R(1)},
                   max_daily_volume : {R(MaxOrderVolume)},
                   wealth_mode : {"unlimited"}, price_tick : CurveTicks]
    /\ traders = <<>>
    /\ manipulator = None
    /\ n_days = 0
    /\ day = 0
    /\ last_price = config.initial_price
    /\ states = <<>>
    /\ pc = "ready"
    /\ \E nb \in 0..MaxOrders :
          \E ns \in 0..(MaxOrders - nb) :
              /\ buy_orders \in CurveOrderLists("buy", nb)
              /\ sell_orders \in CurveOrderLists("sell", ns)
    /\ owner_lookup = <<>>
    /\ order_curves = None
    /\ price = None
    /\ volume = None
    /\ buy_fills = <<>>
    /\ sell_fills = <<>>
    /\ call = None
    /\ slots_super \in BOOLEAN

\* aggregate_orders(buy_orders=..., sell_orders=..., price_tick=...)
AggregateOrdersCall ==
    /\ pc = "ready"
    /\ order_curves' = Some(FloatAggregateOrders(buy_orders, sell_orders,
                                                 config.price_tick))
    /\ call' = [op |-> "aggregate_orders"]
    /\ pc' = "returned"
    /\ UNCHANGED <<slots_super, config, traders, manipulator, n_days, day, last_price, states,
                   buy_orders, sell_orders, owner_lookup, price, volume,
                   buy_fills, sell_fills>>

NextCurves == AggregateOrdersCall

SpecCurves == InitCurves /\ [][NextCurves]_vars

(***************************************************************************)
(* Properties.                                                             *)
(***************************************************************************)
FillVolumes(fills) == [i \in 1..Len(fills) |-> fills[i].fill]
TotalFilled(fills) == RSum(FillVolumes(fills))

\* The day's curves once the clear phase has run.
Grid == order_curves[1].price_grid
SatisfactionAt(i) == RMin(order_curves[1].buy_curve[i], order_curves[1].sell_curve[i])
Tied == {i \in 1..Len(Grid) : SatisfactionAt(i) = volume}
OnGrid(p) == \E i \in 1..Len(Grid) : Grid[i] = p

TiedPriceSum ==
    RSum([i \in 1..Len(Grid) |-> IF i \in Tied THEN Grid[i] ELSE Zero])

C2_EquilibriumIsMeanOfTied ==
    (pc = "cleared" /\ \E i \in 1..Len(Grid) : RGt(SatisfactionAt(i), Zero)) =>
        /\ \A i \in 1..Len(Grid) : RLe(SatisfactionAt(i), volume)
        /\ Tied # {}
        /\ RMul(price, R(Cardinality(Tied))) = TiedPriceSum

\* Cleared curves on which three or more grid prices tie at the positive
\* maximum, so that the mean is neither the first nor the last of them.
C2_Witness ==
    /\ pc = "cleared"
    /\ RGt(volume, Zero)
    /\ Cardinality(Tied) >= 3
    /\ \E i \in 1..Len(Grid) : RLt(SatisfactionAt(i), volume) /\ RGt(SatisfactionAt(i), Zero)

\* C3: for non-empty order sets in which every buy limit is strictly below
\* every sell limit (also with buyers only or sellers only),
\* build_order_curves followed by find_equilibrium_price returns volume 0 and
\* the last, highest grid price.
NoOverlap ==
    /\ buy_orders # <<>> \/ sell_orders # <<>>
    /\ \A i \in 1..Len(buy_orders), j \in 1..Len(sell_orders) :
           RLt(buy_orders[i].price, sell_orders[j].price)

C3_NoOverlapClearsNothing ==
    (pc = "cleared" /\ NoOverlap) =>
        /\ volume = Zero
        /\ price = Grid[Len(Grid)]
        /\ \A i \in 1..Len(Grid) : RLe(Grid[i], price)

\* Cleared curves of buyers and sellers that do not overlap, more than one
\* order on a side.
C3_Witness ==
    /\ pc = "cleared"
    /\ NoOverlap
    /\ buy_orders # <<>> /\ sell_orders # <<>>
    /\ Len(buy_orders) + Len(sell_orders) >= 3

\* C4: a single buy order (p, v) against a single sell order (p, v) clears at
\* price exactly p and volume exactly v, for every positive p, v and price
\* tick.
PerfectMatch ==
    /\ Len(buy_orders) = 1 /\ Len(sell_orders) = 1
    /\ buy_orders[1].price = sell_orders[1].price
    /\ buy_orders[1].volume = sell_orders[1].volume

C4_PerfectMatchClearsAtItsPrice ==
    (pc = "cleared" /\ PerfectMatch) =>
        /\ price = buy_orders[1].price
        /\ volume = buy_orders[1].volume

\* C5: whenever some collected buy order has a limit price greater than or
\* equal to the limit price of some collected sell order, the cleared volume
\* is strictly greater than 0, for any order prices and any tick size.
Crossing ==
    \E i \in 1..Len(buy_orders), j \in 1..Len(sell_orders) :
        RGe(buy_orders[i].price, sell_orders[j].price)

C5_CrossingOrdersTrade ==
    (pc = "cleared" /\ Crossing) => RGt(volume, Zero)

\* C6: whenever find_equilibrium_price returns a volume > 0, the clearing
\* price lies between the lowest sell limit price and the highest buy limit
\* price, also when it is the mean of several tied grid prices.
C6_PriceWithinLimits ==
    (pc = "cleared" /\ RGt(volume, Zero)) =>
        /\ RLe(RMinSeq(Prices(sell_orders)), price)
        /\ RLe(price, RMaxSeq(Prices(buy_orders)))

\* Cleared curves with trade at a price off the grid, strictly inside the
\* limits, next to an order that stays out of the trade.
C6_Witness ==
    /\ pc = "cleared"
    /\ RGt(volume, Zero)
    /\ ~OnGrid(price)
    /\ RLt(RMinSeq(Prices(sell_orders)), price)
    /\ RLt(price, RMaxSeq(Prices(buy_orders)))
    /\ Len(buy_fills) + Len(sell_fills) < Len(buy_orders) + Len(sell_orders)

\* The price before day i of the run: initial_price, then the price of the
\* previous day's MarketState.
PriceBefore(i) == IF i = 1 THEN config.initial_price ELSE states[i - 1].price
EmptyDayState(i) == states[i].order_curves = None
NoTradeDayState(i) == states[i].order_curves # None /\ states[i].volume = Zero
TradedDayState(i) == states[i].order_curves # None /\ RGt(states[i].volume, Zero)

\* C7: on a day of run on which no trader and no manipulator produces an
\* order, the emitted MarketState has volume 0, the price carried from the
\* previous day (initial_price on day 0) and no order_curves; clearing and
\* settlement are skipped and last_price is unchanged for the next day.
EmptyDayStep ==
    (pc = "collected" /\ buy_orders = <<>> /\ sell_orders = <<>>) =>
        /\ Len(states') = Len(states) + 1
        /\ SubSeq(states', 1, Len(states)) = states
        /\ states'[Len(states')].day = day
        /\ states'[Len(states')].volume = Zero
        /\ states'[Len(states')].price = last_price
        /\ states'[Len(states')].order_curves = None
        /\ pc' = "loop"
        /\ last_price' = last_price
        /\ UNCHANGED <<traders, manipulator, order_curves, price, volume,
                       buy_fills, sell_fills>>

EmptyDaysCarryPrice ==
    \A i \in 1..Len(states) :
        EmptyDayState(i) =>
            states[i].volume = Zero /\ states[i].price = PriceBefore(i)

C7_EmptyDay == []EmptyDaysCarryPrice /\ [][EmptyDayStep]_vars

\* An empty day after a day that moved the price away from initial_price.
C7_Witness ==
    /\ Len(states) >= 2
    /\ EmptyDayState(Len(states))
    /\ states[Len(states)].price # config.initial_price
    /\ last_price = states[Len(states)].price

\* C8: on a day where orders were collected but no volume is executable, the
\* day's MarketState.price and the last_price handed to the traders on the
\* next day equal the previous day's price.
C8_NoTradeDayCarriesPrice ==
    /\ \A i \in 1..Len(states) :
           NoTradeDayState(i) => states[i].price = PriceBefore(i)
    /\ (pc = "loop" /\ states # <<>> /\ NoTradeDayState(Len(states))) =>
           last_price = PriceBefore(Len(states))

\* C9: run(n_days) terminates without raising and returns exactly n_days
\* MarketStates whose day fields are 0, 1, ..., n_days - 1 in order, one per
\* day whether the day was empty, untraded or traded.  Termination: no
\* call raises, and every step lowers the number of steps left.
OneStatePerDay ==
    /\ pc # "raised"
    /\ day <= n_days
    /\ Len(states) = day
    /\ \A i \in 1..Len(states) : states[i].day = i - 1
    /\ pc = "done" => Len(states) = n_days

\* The steps run still has to take: three per remaining day and the return.
StepsLeft ==
    IF pc = "done" THEN 0
    ELSE 3 * (n_days - day) + (CASE pc = "loop" -> 3
                                 [] pc = "collected" -> 2
                                 [] pc = "cleared" -> 1
                                 [] OTHER -> 0)

C9_RunContract == []OneStatePerDay /\ [][StepsLeft' < StepsLeft]_vars

\* C10: every MarketState produced by run has price > 0 and volume >= 0,
\* on empty days, on days with orders but no trade, and with a manipulator.
C10_PositivePrices ==
    \A i \in 1..Len(states) :
        RGt(states[i].price, Zero) /\ RGe(states[i].volume, Zero)

\* A run with a manipulator holding a day with orders but no trade and a
\* traded day.
C10_Witness ==
    /\ manipulator # None
    /\ \E i \in 1..Len(states) : NoTradeDayState(i)
    /\ \E i \in 1..Len(states) : TradedDayState(i)

\* C11: WealthLimitedTrader.apply_fill with volume > 0 changes wealth by
\* exactly -price * volume and holdings by exactly +volume for a buy, and by
\* +price * volume and -volume for a sell, with the fill price and the fill
\* volume, not the order's limit price or full volume; with volume <= 0
\* wealth and holdings are unchanged.
FillValue == RMul(call.price, call.volume)

C11_ApplyFillConserves ==
    (pc = "returned" /\ call.op = "apply_fill") =>
        /\ (RGt(call.volume, Zero) /\ call.order.side = "buy") =>
               /\ RAdd(traders[1].wealth, FillValue) = call.before.wealth
               /\ RSub(traders[1].holdings, call.volume) = call.before.holdings
        /\ (RGt(call.volume, Zero) /\ call.order.side = "sell") =>
               /\ RSub(traders[1].wealth, FillValue) = call.before.wealth
               /\ RAdd(traders[1].holdings, call.volume) = call.before.holdings
        /\ RLe(call.volume, Zero) => traders[1] = call.before

\* A buy filled in part, at a price other than its limit.
C11_Witness ==
    /\ pc = "returned"
    /\ call.op = "apply_fill"
    /\ call.order.side = "buy"
    /\ RGt(call.volume, Zero)
    /\ RLt(call.volume, call.order.volume)
    /\ call.price # call.order.price
    /\ traders[1] # call.before

\* C12: constructing an Order whose side is not buy or sell, or whose price
\* is <= 0, or whose volume is <= 0 fails at construction time, so every
\* Order in the buy and sell lists has a side in {buy, sell}, price > 0 and
\* volume > 0.
BadOrderArguments(o) ==
    \/ ~(o.side = "buy" \/ o.side = "sell")
    \/ ~RGt(o.price, Zero)
    \/ ~RGt(o.volume, Zero)

C12_OrderValidity ==
    (pc = "returned" /\ call.op = "Order") =>
        /\ call.raised <=> BadOrderArguments(call.order)
        /\ call.raised => (buy_orders = <<>> /\ sell_orders = <<>>)
        /\ \A i \in 1..Len(buy_orders) :
               buy_orders[i].side = "buy" /\ ~BadOrderArguments(buy_orders[i])
        /\ \A i \in 1..Len(sell_orders) :
               sell_orders[i].side = "sell" /\ ~BadOrderArguments(sell_orders[i])

\* A constructor call that raised on a price of 0 with a good side and volume.
C12_Witness ==
    /\ pc = "returned"
    /\ call.op = "Order"
    /\ call.raised
    /\ call.order.side = "sell"
    /\ call.order.price = Zero
    /\ RGt(call.order.volume, Zero)

\* C13: every order returned by WealthLimitedTrader.maybe_generate_order has,
\* for a buy, volume <= wealth / max(price, tick) and <= max_daily_volume,
\* and for a sell, volume <= min(holdings, max_daily_volume); a trader whose
\* limit is <= 0 (wealth 0, holdings 0) gets None.
C13_OrderClipping ==
    (pc = "returned" /\ call.op = "maybe_generate_order" /\ call.result # None) =>
        /\ RGt(call.result[1].volume, Zero)
        /\ RLe(call.result[1].volume, config.max_daily_volume)
        /\ call.result[1].side = "buy" =>
               /\ RGt(traders[1].wealth, Zero)
               /\ RLe(RMul(call.result[1].volume,
                           RMax(call.result[1].price, config.price_tick)),
                      traders[1].wealth)
        /\ call.result[1].side = "sell" =>
               /\ RGt(traders[1].holdings, Zero)
               /\ RLe(call.result[1].volume, traders[1].holdings)

\* A buy order cut below the drawn volume by the trader's wealth.
C13_Witness ==
    /\ pc = "returned"
    /\ call.op = "maybe_generate_order"
    /\ call.result # None
    /\ call.result[1].side = "buy"
    /\ RLt(call.result[1].volume, R(call.draw.volume))
    /\ RLt(call.result[1].volume, config.max_daily_volume)

\* C15: as the day advances, current_phase is accumulate exactly while
\* day < accumulation_days, pump exactly while accumulation_days <= day <
\* accumulation_days + pump_days, and dump on every later day; the phase
\* never returns to an earlier one (so it changes at most twice) and dump is
\* terminal: it does not end after dump_days.
PhaseRank(phase) ==
    CASE phase = "accumulate" -> 0 [] phase = "pump" -> 1 [] phase = "dump" -> 2

PhaseOfDay ==
    call # None =>
        /\ call.phase \in {"accumulate", "pump", "dump"}
        /\ call.phase = "accumulate" <=> call.day < manipulator[1].accumulation_days
        /\ call.phase = "dump" <=>
               call.day >= manipulator[1].accumulation_days + manipulator[1].pump_days

PhaseNeverGoesBack ==
    call # None =>
        /\ call'.day = call.day + 1
        /\ PhaseRank(call'.phase) >= PhaseRank(call.phase)
        /\ call.phase = "dump" => call'.phase = "dump"

C15_PhaseMachine == []PhaseOfDay /\ [][PhaseNeverGoesBack]_vars

\* A manipulator with three non-empty phases asked on a day past the end of
\* its dump_days.
C15_Witness ==
    /\ call # None
    /\ manipulator[1].accumulation_days > 0
    /\ manipulator[1].pump_days > 0
    /\ manipulator[1].dump_days > 0
    /\ call.day >= manipulator[1].accumulation_days + manipulator[1].pump_days
                       + manipulator[1].dump_days
    /\ call.phase = "dump"

\* C17: on every dump-phase day maybe_generate_order_batch returns no order
\* when holdings <= 0 and otherwise exactly one order, a sell at
\* max(last_price * 0.99, tick) with volume min(holdings, 3 * max_daily_volume);
\* the total volume offered never exceeds the manipulator's holdings.
C17_DumpOrders ==
    (call # None /\ call.phase = "dump") =>
        IF RLe(manipulator[1].holdings, Zero)
        THEN call.orders = <<>>
        ELSE /\ Len(call.orders) = 1
             /\ call.orders[1].side = "sell"
             /\ call.orders[1].price
                    = RMax(RMul(last_price, <<99, 100>>), config.price_tick)
             /\ call.orders[1].volume
                    = RMin(manipulator[1].holdings,
                           RMul(R(3), config.max_daily_volume))
             /\ RLe(RSum([i \in 1..Len(call.orders) |-> call.orders[i].volume]),
                    manipulator[1].holdings)

\* A dump-phase day on which the holdings, smaller than 3 * max_daily_volume,
\* limit the single sell order.
C17_Witness ==
    /\ call # None
    /\ call.phase = "dump"
    /\ RGt(manipulator[1].holdings, Zero)
    /\ RLt(manipulator[1].holdings, RMul(R(3), config.max_daily_volume))
    /\ Len(call.orders) = 1
    /\ call.orders[1].volume = manipulator[1].holdings

\* C16: in a run with a Manipulator whose initial wealth is >= 0, the
\* manipulator's wealth is never negative at the end of any day, in the
\* accumulate, pump and dump phases and whatever the other traders order.
InitialWealthNonNegative ==
    \A m \in Manipulators : m # None => RGe(m[1].wealth, Zero)

ManipulatorIds(m) ==
    {m.trader_id, m.trader_id \o "_pump_buy", m.trader_id \o "_pump_sell",
     m.trader_id \o "_dump"}

\* The volume filled on the orders of one allocation that carry one of the
\* ids.
FilledFor(fills, ids) ==
    TotalFilled(SelectSeq(fills, LAMBDA f : f.order.trader_id \in ids
                                            /\ RGt(f.fill, Zero)))

\* The participant after one apply_fill per fill of its own orders.
SettledOnOwnFills(t, ids) ==
    IF t.kind = "random" THEN t
    ELSE [t EXCEPT
            !.wealth = RAdd(RSub(@, RMul(price, FilledFor(buy_fills, ids))),
                            RMul(price, FilledFor(sell_fills, ids))),
            !.holdings = RSub(RAdd(@, FilledFor(buy_fills, ids)),
                              FilledFor(sell_fills, ids))]

SettlementRouting ==
    pc = "cleared" =>
        /\ \A i \in 1..Len(traders) :
               traders'[i] = SettledOnOwnFills(traders[i], {traders[i].trader_id})
        /\ manipulator # None =>
               manipulator'[1] = SettledOnOwnFills(manipulator[1],
                                                   ManipulatorIds(manipulator[1]))

C20_SettlementRouting == [][SettlementRouting]_vars

\* The end of a pump day on which the manipulator's pump buy and a
\* wealth-limited trader's sell were both settled.
C20_Witness ==
    /\ pc = "loop"
    /\ day = 1
    /\ manipulator # None
    /\ manipulator[1].accumulation_days = 0
    /\ config.wealth_mode = "limited"
    /\ RGt(manipulator[1].holdings, R(1))
    /\ \E i \in 1..Len(traders) : RLt(traders[i].holdings, R(1))

\* C19: for every constant input series of any length and every window size
\* rolling_zscore returns a list of the same length consisting only of zeros;
\* whenever the trailing window, a window of a single point included, has
\* standard deviation 0 the z-score at that index is 0, never an error or an
\* undefined value.  A window size is an integer >= 1.
ConstantSeries(series) ==
    \A i \in 1..Len(series) : series[i] = series[1]

ZeroOnConstantSeries ==
    ConstantSeries(call.values) =>
        \A i \in 1..Len(call.result) : call.result[i] = Zero

ZeroOnZeroDeviation ==
    \A i \in 1..Len(call.result) :
        SliceStd(WindowSlice(call.values, call.window, i),
                 SliceMean(WindowSlice(call.values, call.window, i))) = Zero
            => call.result[i] = Zero

C19_ZscoreDegeneracy ==
    (pc = "returned" /\ call.op = "rolling_zscore" /\ call.window >= 1) =>
        /\ ~call.raised
        /\ Len(call.result) = Len(call.values)
        /\ ZeroOnConstantSeries
        /\ ZeroOnZeroDeviation

\* C18: attach_anomaly_scores(states, window) sets manipulation_score to a
\* non-null value on every element of states and leaves every other field of
\* every state and the length and order of the sequence unchanged; the score
\* of each state is a function of the price and volume fields of the
\* sequence only.  A window size is an integer >= 1.
PricesOf(sts) == [k \in 1..Len(sts) |-> sts[k].price]
VolumesOf(sts) == [k \in 1..Len(sts) |-> sts[k].volume]

\* |z-score of the price| + |z-score of the volume| at every index, from
\* the two series alone.
ScoresOfSeries(prices, volumes, window) ==
    AbsSums(RollingZscore(prices, window), RollingZscore(volumes, window))

ScoresAttached(sts) == [i \in 1..Len(sts) |-> sts[i].manipulation_score]
ScoresBlanked(sts) == [i \in 1..Len(sts) |-> [sts[i] EXCEPT !.manipulation_score = None]]
SomeOfEach(scores) == [i \in 1..Len(scores) |-> Some(scores[i])]

C18_AttachAnomalyScoresFrame ==
    (pc = "returned" /\ call.op = "attach_anomaly_scores" /\ call.window >= 1) =>
        /\ ~call.raised
        /\ Len(states) = Len(call.before)
        /\ \A i \in 1..Len(states) : states[i].manipulation_score # None
        /\ ScoresBlanked(states) = call.before
        /\ ScoresAttached(states)
               = SomeOfEach(ScoresOfSeries(PricesOf(call.before),
                                           VolumesOf(call.before), call.window))

\* Three states that differ in the fields the score does not read, scored
\* with a window shorter than the sequence; the last one stands out.
C18_Witness ==
    /\ pc = "returned"
    /\ call.op = "attach_anomaly_scores"
    /\ call.window = 2
    /\ Len(states) = 3
    /\ states[2].sentiment_value # states[3].sentiment_value
    /\ states[2].order_curves # states[3].order_curves
    /\ states[2].price = states[1].price
    /\ states[3].price # states[2].price
    /\ states[3].manipulation_score # Some(Zero)
    /\ states[2].manipulation_score = Some(Zero)

\* C21: on each side of a traded day the eligible orders are served most
\* aggressive first (buys by descending limit, sells by ascending limit): an
\* order has a positive fill only if every strictly more aggressive eligible
\* order of its side is filled to its full volume, every fill is > 0 and at
\* most the order's volume, and at most one order per side, the last one
\* touched, is filled in part.
MoreAggressive(side, a, b) ==
    /\ a.price # b.price
    /\ IF side = "buy" THEN RGt(a.price, b.price) ELSE RLt(a.price, b.price)

EligibleOn(side) ==
    IF side = "buy" THEN SelectSeq(buy_orders, LAMBDA o : RGe(o.price, price))
                    ELSE SelectSeq(sell_orders, LAMBDA o : RLe(o.price, price))

FilledInFull(fills, o) ==
    \E j \in 1..Len(fills) : fills[j].order = o /\ fills[j].fill = o.volume

PriorityOn(side, fills) ==
    /\ \A i \in 1..Len(fills) :
           /\ RGt(fills[i].fill, Zero)
           /\ RLe(fills[i].fill, fills[i].order.volume)
           /\ \E k \in 1..Len(EligibleOn(side)) : EligibleOn(side)[k] = fills[i].order
           /\ \A k \in 1..Len(EligibleOn(side)) :
                  MoreAggressive(side, EligibleOn(side)[k], fills[i].order)
                      => FilledInFull(fills, EligibleOn(side)[k])
           /\ RLt(fills[i].fill, fills[i].order.volume) => i = Len(fills)
    /\ \A i, j \in 1..Len(fills) :
           i < j => /\ fills[i].order.id # fills[j].order.id
                    /\ ~MoreAggressive(side, fills[j].order, fills[i].order)

Emitted(ids) ==
    \/ \E k \in 1..Len(buy_orders) : buy_orders[k].trader_id \in ids
    \/ \E k \in 1..Len(sell_orders) : sell_orders[k].trader_id \in ids

Unfilled(ids) ==
    \/ ~Emitted(ids)
    \/ volume = Zero
    \/ FilledFor(buy_fills, ids) = Zero /\ FilledFor(sell_fills, ids) = Zero

FrameOfDay ==
    /\ config' = config
    /\ pc # "cleared" => (traders' = traders /\ manipulator' = manipulator)
    /\ pc = "cleared" =>
           /\ Len(traders') = Len(traders)
           /\ \A i \in 1..Len(traders) :
                  Unfilled({traders[i].trader_id}) => traders'[i] = traders[i]
           /\ manipulator = None => manipulator' = None
           /\ (manipulator # None /\ Unfilled(ManipulatorIds(manipulator[1])))
                  => manipulator' = manipulator

C22_FrameOfDay == [][FrameOfDay]_vars

\* The end of a traded day of wealth-limited traders and a manipulator on
\* which one trader and the manipulator were settled and the other trader
\* was not.
C22_Witness ==
    /\ pc = "loop"
    /\ day = 1
    /\ config.wealth_mode = "limited"
    /\ RGt(states[1].volume, Zero)
    /\ manipulator # None
    /\ manipulator[1].holdings # R(1)
    /\ traders[1] = BuildTraders(config, R(6), R(1))[1]
    /\ traders[2] # BuildTraders(config, R(6), R(1))[2]

\* C23: on every pump-phase day maybe_generate_order_batch returns no order
\* when wealth <= 0 and otherwise exactly two orders, a buy at
\* P = max(last_price * 1.02, tick) and a sell at P * 1.001, both with the
\* volume min(wealth / P, 2 * max_daily_volume); the sell price is strictly
\* above the buy price, so no clearing price makes both eligible.
PumpPrice == RMax(RMul(last_price, <<51, 50>>), config.price_tick)

PumpPair(orders, p) ==
    /\ Len(orders) = 2
    /\ orders[1].side = "buy"
    /\ orders[1].price = p
    /\ orders[2].side = "sell"
    /\ orders[2].price = RMul(p, <<1001, 1000>>)
    /\ orders[1].volume = RMin(RDiv(manipulator[1].wealth, p),
                               RMul(R(2), config.max_daily_volume))
    /\ orders[2].volume = orders[1].volume
    /\ RGt(orders[1].volume, Zero)
    /\ RGt(orders[2].price, orders[1].price)
    /\ OrderValid(orders[1]) /\ OrderValid(orders[2])

C23_PumpOrders ==
    (call # None /\ call.phase = "pump") =>
        /\ ~call.raised
        /\ IF RLe(manipulator[1].wealth, Zero) THEN call.orders = <<>>
           ELSE PumpPair(call.orders, PumpPrice)

\* A pump-phase day after an accumulate day on which the wealth, not
\* 2 * max_daily_volume, sizes the pair, priced above the tick.
C23_Witness ==
    /\ call # None
    /\ call.phase = "pump"
    /\ call.day > 0
    /\ Len(call.orders) = 2
    /\ RGt(call.orders[1].price, config.price_tick)
    /\ RLt(call.orders[1].volume, RMul(R(2), config.max_daily_volume))
    /\ RMul(call.orders[1].volume, call.orders[1].price) = manipulator[1].wealth

\* C24: in a run that covers only accumulation-phase days the manipulator's
\* holdings at the end of every day are greater than or equal to its initial
\* holdings, whatever they are: the accumulate phase buys and never reduces
\* the position.
HoldingsAtStart ==
    CHOOSE h \in {m[1].holdings : m \in Manipulators \ {None}} : TRUE

C24_AccumulationOnlyAccumulates ==
    (/\ manipulator # None
     /\ n_days <= manipulator[1].accumulation_days
     /\ pc \in {"loop", "done"})
        => RGe(manipulator[1].holdings, HoldingsAtStart)

\* C25: over any sequence of maybe_generate_order calls the phase of a
\* LayeringManipulator starts at build and only ever moves build -> maintain
\* -> remove -> profit -> build, one step at a time; the active layers are
\* emptied on entering profit, and the cycle counter increases by exactly one
\* on each profit -> build transition and at no other time.
PhaseAfter(phase) ==
    CASE phase = "build" -> "maintain"
      [] phase = "maintain" -> "remove"
      [] phase = "remove" -> "profit"
      [] phase = "profit" -> "build"

StartsAtBuild ==
    call = None =>
        /\ traders[1]._phase = "build"
        /\ traders[1]._cycle_counter = 0
        /\ traders[1]._active_layers = <<>>

PhaseStep ==
    /\ traders'[1]._phase \in {"build", "maintain", "remove", "profit"}
    /\ \/ traders'[1]._phase = traders[1]._phase
       \/ traders'[1]._phase = PhaseAfter(traders[1]._phase)
    /\ (traders[1]._phase = "remove" /\ traders'[1]._phase = "profit")
           => traders'[1]._active_layers = <<>>
    /\ traders'[1]._cycle_counter =
           IF traders[1]._phase = "profit" /\ traders'[1]._phase = "build"
           THEN traders[1]._cycle_counter + 1
           ELSE traders[1]._cycle_counter

C25_LayeringPhaseOrder == []StartsAtBuild /\ [][PhaseStep]_vars

\* The call that enters the profit phase of the second cycle while layers of
\* that cycle were still active.
C25_Witness ==
    /\ call # None
    /\ call.before._phase = "remove"
    /\ call.before._active_layers # <<>>
    /\ call.before._cycle_counter = 1
    /\ traders[1]._phase = "profit"
    /\ traders[1]._active_layers = <<>>

\* C26: phase_duration is the number of turns each phase is maintained: every
\* phase, the first build phase after construction included, is the current
\* phase for exactly phase_duration consecutive maybe_generate_order calls
\* before the next phase begins.  With the phase order of C25 this says that
\* the turns 1..phase_duration run in build, the next phase_duration turns
\* in maintain, and so on.
PhaseOfTurn(turn, phase_duration) ==
    CASE ((turn - 1) \div phase_duration) % 4 = 0 -> "build"
      [] ((turn - 1) \div phase_duration) % 4 = 1 -> "maintain"
      [] ((turn - 1) \div phase_duration) % 4 = 2 -> "remove"
      [] ((turn - 1) \div phase_duration) % 4 = 3 -> "profit"

C26_LayeringPhaseDuration ==
    call # None =>
        traders[1]._phase = PhaseOfTurn(call.turn, traders[1].phase_duration)

\* C27: the curves built by aggregate_orders have a grid, a buy curve and a
\* sell curve of one length; buy_curve[i] is the total volume of the buy
\* orders with limit >= price_grid[i] and sell_curve[i] the total volume of
\* the sell orders with limit <= price_grid[i]; the generated grid is strictly
\* increasing, is the single point [tick] when there are no orders, and its
\* last point is >= the highest order price, so that the last sell_curve
\* entry counts every sell order.  (The steps of the grid are compared with
\* the tick up to rounding only: they are required to be positive.)
CurveGrid == order_curves[1].price_grid

CurvesAreTotals ==
    /\ Len(order_curves[1].buy_curve) = Len(CurveGrid)
    /\ Len(order_curves[1].sell_curve) = Len(CurveGrid)
    /\ \A i \in 1..Len(CurveGrid) :
           /\ order_curves[1].buy_curve[i] =
                  RSum(Volumes(SelectSeq(buy_orders,
                                         LAMBDA o : RGe(o.price, CurveGrid[i]))))
           /\ order_curves[1].sell_curve[i] =
                  RSum(Volumes(SelectSeq(sell_orders,
                                         LAMBDA o : RLe(o.price, CurveGrid[i]))))

GridReachesEveryOrder ==
    /\ Len(CurveGrid) >= 1
    /\ \A i \in 1..(Len(CurveGrid) - 1) : RLt(CurveGrid[i], CurveGrid[i + 1])
    /\ (buy_orders = <<>> /\ sell_orders = <<>>) => CurveGrid = <<config.price_tick>>
    /\ \A k \in 1..Len(buy_orders) : RLe(buy_orders[k].price, CurveGrid[Len(CurveGrid)])
    /\ \A k \in 1..Len(sell_orders) : RLe(sell_orders[k].price, CurveGrid[Len(CurveGrid)])
    /\ order_curves[1].sell_curve[Len(CurveGrid)] = RSum(Volumes(sell_orders))

C27_CurvesOfAggregateOrders ==
    (pc = "returned" /\ call.op = "aggregate_orders") =>
        CurvesAreTotals /\ GridReachesEveryOrder

\* C28: in any run, every WealthLimitedTrader of the regular trader list that
\* starts with wealth >= 0 and holdings >= 0 has wealth >= 0 and holdings >= 0
\* at the end of every day: it emits at most one clipped order a day and a
\* buy is only filled at a clearing price <= its limit.
StartsSolvent(cfg) ==
    \A i \in 1..cfg.n_traders :
        /\ RGe(BuildTraders(cfg, R(6), R(1))[i].wealth, Zero)
        /\ RGe(BuildTraders(cfg, R(6), R(1))[i].holdings, Zero)

Solvent(t) == RGe(t.wealth, Zero) /\ RGe(t.holdings, Zero)

InitialHoldingsNonNegative ==
    \A m \in Manipulators : m # None => RGe(m[1].holdings, Zero)

C29_ManipulatorNeverShort ==
    (InitialHoldingsNonNegative /\ manipulator # None /\ pc \in {"loop", "done"}) =>
        RGe(manipulator[1].holdings, Zero)

\* C30: in a run where every participant (all regular traders and the
\* manipulator, if any) is a WealthLimitedTrader, the sum of wealth over all
\* participants and the sum of holdings over all participants are the same at
\* the end of every day as at the start of the run: no step of the run
\* changes either sum.
Participants(ts, m) == IF m = None THEN ts ELSE ts \o m

\* The exact sum of a list of rationals, taken over their least common
\* denominator.
RECURSIVE CommonDenominator(_)
CommonDenominator(s) ==
    IF s = <<>> THEN 1
    ELSE (Head(s)[2] \div GCD(Head(s)[2], CommonDenominator(Tail(s))))
             * CommonDenominator(Tail(s))

RECURSIVE NumeratorsOver(_, _)
NumeratorsOver(s, d) ==
    IF s = <<>> THEN 0
    ELSE Head(s)[1] * (d \div Head(s)[2]) + NumeratorsOver(Tail(s), d)

Total(s) == Norm(NumeratorsOver(s, CommonDenominator(s)), CommonDenominator(s))

TotalWealth(ts, m) ==
    Total([i \in 1..Len(Participants(ts, m)) |-> Participants(ts, m)[i].wealth])

TotalHoldings(ts, m) ==
    Total([i \in 1..Len(Participants(ts, m)) |-> Participants(ts, m)[i].holdings])

AllWealthLimited(ts, m) ==
    \A i \in 1..Len(Participants(ts, m)) : Participants(ts, m)[i].kind = "limited"

TotalsKept ==
    AllWealthLimited(traders, manipulator) =>
        /\ TotalWealth(traders', manipulator') = TotalWealth(traders, manipulator)
        /\ TotalHoldings(traders', manipulator') = TotalHoldings(traders, manipulator)

====
